---- MODULE Spec2Model ----
(***************************************************************************)
(* A model of flaskext.filekit (src/flaskext/filekit.py): file kits, their *)
(* fields and the lazy / eager generation of derivative files.             *)
(*                                                                         *)
(* File names and paths are sequences of one-character strings, so that    *)
(* rsplit('.', 1), '.'.join and os.path.join are computed, not assumed.    *)
(* The upload set (flaskext.uploads.UploadSet) is the storage backend: a   *)
(* map from the path below the set's destination to the stored bytes.  Its *)
(* save() is one atomic step and, as in Flask-Uploads, never replaces a    *)
(* file: when the target exists it stores under the name resolve_conflict  *)
(* picks (stem_1.ext, stem_2.ext, ...), the renaming the docstring of      *)
(* FileKit.save warns about.                                               *)
(*                                                                         *)
(* Request threads run the operations of the module step by step; every    *)
(* step is one line (or one call) of the source, so that the steps of two  *)
(* requests interleave as they can in the program.                         *)
(***************************************************************************)
EXTENDS Integers, Sequences, FiniteSets, TLC

(* ------------------------------ bounds --------------------------------- *)
\* operations (requests) started over a run
MaxOps == 3
\* source files uploaded over a run
MaxUploads == 2

Threads == {"t1", "t2"}

(* ------------------------------ values --------------------------------- *)
\* Python's None, as an extension or an instance that is not there
None == <<"None">>
NoLabel == "-"

\* truth value of `if x:` for a string-or-None x
Truthy(x) == x # None /\ x # <<>>

\* names a client may suggest for an upload, and a name never stored
UploadNames == { <<"a", ".", "p">>, <<"a", ".", "g">> }
MissingName == <<"z", ".", "p">>

(* ----------------------------- processors ------------------------------ *)
\* class Processor: process() returns fp itself; declares no `ext`
BaseProcessor == [cls |-> "Processor", width |-> 0]
\* class Resize(width, ...): decodes the image, returns a JPEG; ext = 'jpg'
Resize(w) == [cls |-> "Resize", width |-> w]

\* hasattr(processor, 'ext')
HasExt(p) == p.cls = "Resize"
\* Resize.ext
ResizeExt == <<"j">>

\* Image.open(fp) raises on bytes that are no image; Processor.process never
ProcessorRaises(p, fp) == p.cls = "Resize" /\ ~fp.img

\* Processor.__call__: fp = self.process(fp); fp.seek(0); return fp
ProcessorCall(p, fp) ==
  IF p.cls = "Resize"
    THEN [fp EXCEPT !.trace = Append(fp.trace, p.width)]
    ELSE fp

(* -------------------------------- kits --------------------------------- *)
\* Field(processors, ext=None, pre_cache=False)
Field(label, processors, ext, pre_cache) ==
  [label |-> label, processors |-> processors, ext |-> ext, pre_cache |-> pre_cache]

\* A kit is its `fields` mapping, in the order the dict iterates it:
\*   t = Field([Processor(), Resize(1, 1)], pre_cache=True)
\*   e = Field([Resize(2, 2), Resize(1, 1)], ext='g')
KitTE ==
  << Field("t", <<BaseProcessor, Resize(1)>>, None, TRUE),
     Field("e", <<Resize(2), Resize(1)>>, <<"g">>, FALSE) >>

KitET ==
  << Field("e", <<Resize(2), Resize(1)>>, <<"g">>, FALSE),
     Field("t", <<BaseProcessor, Resize(1)>>, None, TRUE) >>

\* A class body is the assignments `label = Field(...)` in the order they are
\* written.  BodyDup writes the label t twice, BodyEmpty gives e no processor:
\*   t = Field([Resize(2, 2)])                  t = Field([Processor(), Resize(1, 1)], pre_cache=True)
\*   t = Field([Processor(), Resize(1, 1)], pre_cache=True)      e = Field([])
\*   e = Field([Resize(2, 2), Resize(1, 1)], ext='g')
BodyDup ==
  << Field("t", <<Resize(2)>>, None, FALSE),
     Field("t", <<BaseProcessor, Resize(1)>>, None, TRUE),
     Field("e", <<Resize(2), Resize(1)>>, <<"g">>, FALSE) >>

BodyEmpty ==
  << Field("t", <<BaseProcessor, Resize(1)>>, None, TRUE),
     Field("e", <<>>, None, FALSE) >>

\* two pre_cache fields, of which e copies the source:
\*   t = Field([Processor(), Resize(1, 1)], pre_cache=True)
\*   e = Field([Processor()], ext='g', pre_cache=True)
BodyEager ==
  << Field("t", <<BaseProcessor, Resize(1)>>, None, TRUE),
     Field("e", <<BaseProcessor>>, <<"g">>, TRUE) >>

ClassBodies == { BodyDup, BodyEmpty, BodyEager }

\* the namespace `attrs` the class statement hands to the metaclass: a dict,
\* in which a later assignment to a name has replaced the earlier one
Attrs(body) ==
  { body[i] : i \in { i \in 1..Len(body) :
                        \A j \in (i + 1)..Len(body) : body[j].label # body[i].label } }

\* DeclarativeFieldsMetaclass.__new__: `fields` holds every attribute that is
\* a Field, under its name; no field is looked into and nothing is raised.
\* The dict iterates in an order the program does not choose: every order.
DeclarativeFieldsMetaclass(body) ==
  { k \in [1..Cardinality(Attrs(body)) -> Attrs(body)] :
      \A i, j \in DOMAIN k : k[i] = k[j] => i = j }

\* the kit classes that get defined
Kits == UNION { DeclarativeFieldsMetaclass(b) : b \in ClassBodies }

Labels(k) == [i \in 1..Len(k) |-> k[i].label]
LabelSet(k) == { k[i].label : i \in 1..Len(k) }
FieldOf(k, l) == k[CHOOSE i \in 1..Len(k) : k[i].label = l]

(* -------------------------------- state -------------------------------- *)
VARIABLES
  kit,       \* the kit's `fields`, fixed when the class is defined
  storage,   \* the upload set: path |-> [data]
  th,        \* per request thread: the operation it runs and where it stands
  nops,      \* operations started so far
  nup,       \* sources uploaded so far
  seenPaths, \* every <<filename, label, path>> a read of BoundField.path gave
  running,   \* the threads that serve requests
  fx         \* a function studied on its own: its inputs, and what it returned

vars == << kit, storage, th, nops, nup, seenPaths, running, fx >>

(* ------------------------------ strings -------------------------------- *)
\* index of the last '.' of s, 0 when there is none
LastDot(s) ==
  LET dots == { i \in 1..Len(s) : s[i] = "." }
  IN IF dots = {} THEN 0 ELSE CHOOSE i \in dots : \A j \in dots : j <= i

\* s.rsplit('.', 1) when s holds a '.': <<name, ext>>
RSplit(s) == << SubSeq(s, 1, LastDot(s) - 1), SubSeq(s, LastDot(s) + 1, Len(s)) >>

\* '.'.join((name, ext))
DotJoin(name, ext) == name \o <<".">> \o ext

\* os.path.join(folder, name), posixpath.join(folder, name)
PathJoin(folder, name) == folder \o <<"/">> \o name

(* --------------------------- storage backend --------------------------- *)
\* os.path.exists(uset.path(p))
Exists(st, p) == p \in DOMAIN st

Digits == << <<"1">>, <<"2">>, <<"3">>, <<"4">>, <<"5">>, <<"6">>, <<"7">>, <<"8">>, <<"9">> >>

\* the path a basename gets below `folder` (<<>>: the set's own directory)
Target(folder, basename) ==
  IF folder = <<>> THEN basename ELSE PathJoin(folder, basename)

\* UploadSet.resolve_conflict: '%s_%d%s' % (name, count, ext), the first free
ConflictName(basename, c) ==
  LET d    == LastDot(basename)
      stem == IF d = 0 THEN basename ELSE SubSeq(basename, 1, d - 1)
      ext  == IF d = 0 THEN <<>> ELSE SubSeq(basename, d, Len(basename))
  IN stem \o <<"_">> \o Digits[c] \o ext

resolve_conflict(st, folder, basename) ==
  LET free == { c \in 1..Len(Digits) : ~Exists(st, Target(folder, ConflictName(basename, c))) }
  IN ConflictName(basename, CHOOSE c \in free : \A d \in free : c <= d)

\* the basename UploadSet.save(storage, folder, name) stores under
StoredName(st, folder, name) ==
  IF Exists(st, Target(folder, name)) THEN resolve_conflict(st, folder, name) ELSE name

\* a save that leaves nothing but the file it wrote
UsetSaveAlone(st, folder, name, data) ==
  LET p == Target(folder, StoredName(st, folder, name))
  IN [ q \in {p} |-> [data |-> data] ]

\* the storage after UploadSet.save wrote `data` (one atomic write)
UsetSave(st, folder, name, data) ==
  LET p == Target(folder, StoredName(st, folder, name))
  IN [ q \in DOMAIN st \cup {p} |-> IF q = p THEN [data |-> data] ELSE st[q] ]

(* ------------------------- Field, BoundField --------------------------- *)
\* Field.extension(): processors[-1] raises IndexError on an empty chain
extensionRaises(f) == f.ext = None /\ f.processors = <<>>

\* extension() that lets the last processor's `ext` win over the field's
extensionProcessorFirst(f) ==
  IF HasExt(f.processors[Len(f.processors)]) THEN ResizeExt ELSE f.ext

\* Field.extension()
extension(f) ==
  IF f.ext = None /\ HasExt(f.processors[Len(f.processors)])
    THEN ResizeExt
    ELSE f.ext

\* BoundField.get_filename() raises: the unpacking of rsplit fails on a name
\* with no '.', and extension() may raise
get_filenameRaises(f, filename) == LastDot(filename) = 0 \/ extensionRaises(f)

\* what it raises: the unpacking of line 46 comes before extension()
get_filenameError(f, filename) ==
  IF LastDot(filename) = 0 THEN "ValueError" ELSE "IndexError"

\* BoundField.get_filename()
get_filename(f, filename) ==
  LET name == RSplit(filename)[1]
      ext  == IF Truthy(extension(f)) THEN extension(f) ELSE RSplit(filename)[2]
  IN DotJoin(name, ext)

\* a path that names the file the next save would store: it moves once the
\* derivative is there
BoundPathNextFree(f, filename) ==
  Target(<<f.label>>, StoredName(storage, <<f.label>>, get_filename(f, filename)))

\* BoundField.path, below the upload set's destination:
\* uset.path(os.path.join(self.folder, self.get_filename()))
BoundPath(f, filename) == PathJoin(<<f.label>>, get_filename(f, filename))

\* what BoundField.url returns: uset.url() of the same relative path
BoundUrl(f, filename) == PathJoin(<<f.label>>, get_filename(f, filename))

(* ------------------------------- threads ------------------------------- *)
\* a thread between requests
IdleThread ==
  [ pc     |-> "idle",  \* idle, init, chk, open, write, ret, done
    op     |-> "none",  \* save, init, process, to_dict, url
    force  |-> FALSE,   \* process(force)
    inst   |-> None,    \* filename of the FileKit instance of the request
    todo   |-> <<>>,    \* labels the loop over self.fields has still to visit
    arg    |-> NoLabel, \* the field a url request is for
    cur    |-> NoLabel, \* label of the field being handled
    fp     |-> None,    \* the stream inside BoundField.save
    pi     |-> 0,       \* processors of the chain that were called
    absent |-> {},      \* labels url found absent, in this operation
    gen    |-> <<>>,    \* labels BoundField.save was entered for, in this operation
    wrote  |-> {},      \* paths this operation stored
    out    |-> {},      \* <<label, url>> pairs url returned, in this operation
    status |-> "none",  \* ok, FileNotFound, ProcessorError, ValueError, IndexError
    prev   |-> <<>> ]   \* the url() or save() call this thread completed just before

\* bytes of an upload: which upload it is, and whether it decodes as an image
SourceData(id, img) == [src |-> id, img |-> img, trace |-> <<>>]

\* no Field is under study while the threads serve requests
NoFx == [phase |-> "off"]

TypeOK ==
  /\ kit \in Kits
  /\ nops \in 0..MaxOps
  /\ nup \in 0..MaxUploads
  /\ running \subseteq Threads
  /\ DOMAIN th = Threads
  /\ \A t \in Threads :
       th[t].pc \in {"idle", "init", "chk", "open", "write", "ret", "done"}

\* requests served concurrently; the kit class is KitTE
Init ==
  /\ kit = KitTE
  /\ storage = << >>
  /\ th = [t \in Threads |-> IdleThread]
  /\ nops = 0
  /\ nup = 0
  /\ seenPaths = {}
  /\ running = Threads
  /\ fx = NoFx

\* the same program serving one request at a time, for either kit class
InitSeq ==
  /\ kit \in Kits
  /\ storage = << >>
  /\ th = [t \in Threads |-> IdleThread]
  /\ nops = 0
  /\ nup = 0
  /\ seenPaths = {}
  /\ running = {"t1"}
  /\ fx = NoFx

(* --------------------------- control helpers --------------------------- *)
\* a FileKit.save that returns its instance whatever was raised
RaiseButReturn(r, e) ==
  [r EXCEPT !.pc = "done", !.status = e, !.todo = <<>>, !.fp = None]

\* the operation ends by raising `e`; FileKit.save then returns no instance
Raise(r, e) ==
  [r EXCEPT !.pc = "done", !.status = e, !.todo = <<>>, !.fp = None,
            !.inst = IF r.op \in {"save", "init"} THEN None ELSE r.inst]

\* process that looks at pre_cache alone
ShouldSaveEagerOnly(f, force) == f.pre_cache

\* process that saves every field, forced or not
ShouldSaveAlways(f, force) == TRUE

\* FileKit.process, line 221: if field._field.pre_cache or force
ShouldSave(f, force) == f.pre_cache \/ force

\* the loops of FileKit.process (for field_label in self.fields: if
\* field._field.pre_cache or force: field.save()) and FileKit.to_dict (for
\* label in self.fields: fields[label] = field.url): move to the next field
\* that has work, or return
RECURSIVE NextField(_, _)
NextField(r, k) ==
  IF r.todo = <<>>
    THEN [r EXCEPT !.pc = "done", !.status = "ok", !.cur = NoLabel, !.fp = None, !.pi = 0]
    ELSE LET l  == Head(r.todo)
             r1 == [r EXCEPT !.todo = Tail(r.todo), !.cur = l, !.fp = None, !.pi = 0]
         IN IF r.op \in {"url", "to_dict"}
              THEN [r1 EXCEPT !.pc = "chk"]
              ELSE IF ShouldSave(FieldOf(k, l), r.force)
                     THEN [r1 EXCEPT !.pc = "open"]
                     ELSE NextField(r1, k)

\* what a thread remembers of the operation it just completed
Summary(r) ==
  IF r.op \in {"url", "save"} /\ r.pc = "done"
    THEN << [inst |-> r.inst, label |-> r.arg, absent |-> r.absent # {},
             ran |-> Len(r.gen), status |-> r.status] >>
    ELSE <<>>

\* a thread that may take a new request, and the thread as the request starts
CanStart(t) ==
  /\ t \in running
  /\ th[t].pc \in {"idle", "done"}
  /\ nops < MaxOps

\* it is kept for a request that can be compared with it: a url() or a read
\* of path after a url(), a constructor call after a save()
Remembers(before, op) ==
  \/ before = "url" /\ op \in {"url", "path"}
  \/ before = "save" /\ op = "init"

Fresh(r, op) ==
  [IdleThread EXCEPT !.op = op,
                     !.prev = IF Remembers(r.op, op) THEN Summary(r) ELSE <<>>]

(* ------------------------------ FileKit -------------------------------- *)
\* FileKit.save that keeps the name the client suggested as the instance's
SavedFilenameSuggested(st, name) == name

\* FileKit.save, line 213: `filename` is rebound to what UploadSet.save
\* returns, the basename the source was stored under
SavedFilename(st, name) == StoredName(st, <<>>, name)

\* FileKit.save, line 213: filename = cls.get_upload_set().save(storage,
\* name=filename).  The upload set stores the source, renaming on a conflict.
SaveStore(t, name, img) ==
  /\ CanStart(t)
  /\ nup < MaxUploads
  /\ LET stored == SavedFilename(storage, name)
     IN /\ storage' = UsetSave(storage, <<>>, name, SourceData(nup + 1, img))
        /\ th' = [th EXCEPT ![t] = [Fresh(th[t], "save") EXCEPT !.pc = "init", !.inst = stored]]
  /\ nops' = nops + 1
  /\ nup' = nup + 1
  /\ UNCHANGED << kit, seenPaths, running, fx >>

\* FileKit.__init__(filename): raise FileNotFound unless self.path exists,
\* else bind one BoundField per field
KitInit(r, filename, st) ==
  IF ~Exists(st, filename)
    THEN Raise([r EXCEPT !.inst = filename], "FileNotFound")
    ELSE [r EXCEPT !.inst = filename]

\* FileKit.save, lines 214-215: instance = cls(filename);
\* instance.process(force=False) starts its loop
SaveInit(t) ==
  /\ t \in running
  /\ th[t].pc = "init"
  /\ LET r == KitInit(th[t], th[t].inst, storage)
     IN th' = [th EXCEPT ![t] =
                 IF r.status = "FileNotFound"
                   THEN r
                   ELSE NextField([r EXCEPT !.todo = Labels(kit), !.force = FALSE], kit)]
  /\ UNCHANGED << kit, storage, nops, nup, seenPaths, running, fx >>

\* the names a request may ask an instance for: any path of the upload set
\* (file_info takes <path:filename>), the names uploads suggest, and a name
\* nothing was ever stored under
RequestNames == DOMAIN storage \cup UploadNames \cup {MissingName}

\* the names FileKit.save returned so far: the files of the set's own directory
SourceNames == { p \in DOMAIN storage : \A i \in 1..Len(p) : p[i] # "/" }

\* filekit(filename), as file_info calls it (line 114): the thread with the
\* instance bound, or with FileNotFound raised
Bound(t, op, filename) == KitInit(Fresh(th[t], op), filename, storage)

\* the request goes on as `next` unless the constructor raised
Started(r, next) == IF r.status = "FileNotFound" THEN r ELSE next

\* filekit(filename) alone
Construct(t, filename) ==
  /\ CanStart(t)
  /\ filename \in RequestNames
  /\ LET r == Bound(t, "init", filename)
     IN th' = [th EXCEPT ![t] = Started(r, [r EXCEPT !.pc = "done", !.status = "ok"])]
  /\ nops' = nops + 1
  /\ UNCHANGED << kit, storage, nup, seenPaths, running, fx >>

\* filekit(filename).process(force)
Process(t, filename, force) ==
  /\ CanStart(t)
  /\ filename \in SourceNames
  /\ LET r == Bound(t, "process", filename)
     IN th' = [th EXCEPT ![t] = Started(r, NextField([r EXCEPT !.todo = Labels(kit), !.force = force], kit))]
  /\ nops' = nops + 1
  /\ UNCHANGED << kit, storage, nup, seenPaths, running, fx >>

\* filekit(filename).to_dict(), the body of file_info
ToDict(t, filename) ==
  /\ CanStart(t)
  /\ filename \in SourceNames
  /\ LET r == Bound(t, "to_dict", filename)
     IN th' = [th EXCEPT ![t] = Started(r, NextField([r EXCEPT !.todo = Labels(kit)], kit))]
  /\ nops' = nops + 1
  /\ UNCHANGED << kit, storage, nup, seenPaths, running, fx >>

(* ----------------------------- BoundField ------------------------------ *)
\* getattr(filekit(filename), label).url
Url(t, filename, label) ==
  /\ CanStart(t)
  /\ filename \in SourceNames
  /\ label \in LabelSet(kit)
  /\ LET r == Bound(t, "url", filename)
     IN th' = [th EXCEPT ![t] = Started(r, NextField([r EXCEPT !.todo = <<label>>, !.arg = label], kit))]
  /\ nops' = nops + 1
  /\ UNCHANGED << kit, storage, nup, seenPaths, running, fx >>

\* getattr(filekit(filename), label).path: a computation, nothing else
ReadPath(t, filename, label) ==
  /\ CanStart(t)
  /\ filename \in SourceNames
  /\ label \in LabelSet(kit)
  /\ LET f == FieldOf(kit, label)
         r == Bound(t, "path", filename)
     IN /\ th' = [th EXCEPT ![t] =
                   Started(r, IF get_filenameRaises(f, filename)
                                THEN Raise(r, get_filenameError(f, filename))
                                ELSE [r EXCEPT !.pc = "done", !.status = "ok", !.arg = label])]
        /\ seenPaths' = IF Exists(storage, filename) /\ ~get_filenameRaises(f, filename)
                          THEN seenPaths \cup {<< filename, label, BoundPath(f, filename) >>}
                          ELSE seenPaths
  /\ nops' = nops + 1
  /\ UNCHANGED << kit, storage, nup, running, fx >>

\* url with the existence test lost: it generates on every call
UrlGateNever(st, p) == FALSE

\* url that takes every derivative for generated
UrlGateAlways(st, p) == TRUE

\* BoundField.url, line 66: os.path.exists(self.path)
UrlGate(st, p) == Exists(st, p)

\* BoundField.url, line 66: if not os.path.exists(self.path)
UrlCheck(t) ==
  /\ t \in running
  /\ th[t].pc = "chk"
  /\ LET r == th[t]
         f == FieldOf(kit, r.cur)
     IN IF get_filenameRaises(f, r.inst)
          THEN /\ th' = [th EXCEPT ![t] = Raise(r, get_filenameError(f, r.inst))]
               /\ UNCHANGED seenPaths
          ELSE /\ seenPaths' = seenPaths \cup {<< r.inst, r.cur, BoundPath(f, r.inst) >>}
               /\ th' = [th EXCEPT ![t] =
                           IF UrlGate(storage, BoundPath(f, r.inst))
                             THEN [r EXCEPT !.pc = "ret"]
                             ELSE [r EXCEPT !.pc = "open", !.absent = r.absent \cup {r.cur}]]
  /\ UNCHANGED << kit, storage, nops, nup, running, fx >>

\* BoundField.save, lines 54-56: with open(self.fkit.path) as fp, then
\* fp = processor(fp) for each processor in turn, from index i on.  The
\* result is the last stream, or the index of the processor that raised.
RECURSIVE RunChain(_, _, _)
RunChain(processors, i, fp) ==
  IF i > Len(processors)
    THEN [raised |-> 0, fp |-> fp]
    ELSE IF ProcessorRaises(processors[i], fp)
           THEN [raised |-> i, fp |-> fp]
           ELSE RunChain(processors, i + 1, ProcessorCall(processors[i], fp))

\* a loop that swallows the processor's exception and goes on to store the
\* stream it has
TransformedSwallow(r, f, st) ==
  LET res == RunChain(f.processors, 1, st[r.inst].data)
  IN [r EXCEPT !.gen = Append(r.gen, r.cur), !.fp = res.fp,
               !.pi = Len(f.processors), !.pc = "write"]

\* the thread after the loop over the processors
Transformed(r, f, st) ==
  LET res == RunChain(f.processors, 1, st[r.inst].data)
      r1  == [r EXCEPT !.gen = Append(r.gen, r.cur)]
  IN IF res.raised > 0
       THEN Raise([r1 EXCEPT !.pi = res.raised], "ProcessorError")
       ELSE [r1 EXCEPT !.fp = res.fp, !.pi = Len(f.processors), !.pc = "write"]

SaveTransform(t) ==
  /\ t \in running
  /\ th[t].pc = "open"
  /\ th' = [th EXCEPT ![t] = Transformed(th[t], FieldOf(kit, th[t].cur), storage)]
  /\ UNCHANGED << kit, storage, nops, nup, seenPaths, running, fx >>

\* to_dict that drops the URL of a field it had to generate
AfterWriteNoUrl(r, k) == NextField(r, k)

\* where BoundField.save goes once the file is stored: back into url
\* (line 68) or on with the loop of process
AfterWrite(r, k) ==
  IF r.op \in {"url", "to_dict"} THEN [r EXCEPT !.pc = "ret"] ELSE NextField(r, k)

\* BoundField.save, line 57:
\* self.uset.save(FileStorage(fp), folder=self.folder, name=self.get_filename())
SaveWrite(t) ==
  /\ t \in running
  /\ th[t].pc = "write"
  /\ LET r == th[t]
         f == FieldOf(kit, r.cur)
     IN IF get_filenameRaises(f, r.inst)
          THEN /\ th' = [th EXCEPT ![t] = Raise(r, get_filenameError(f, r.inst))]
               /\ UNCHANGED storage
          ELSE LET name == get_filename(f, r.inst)
                   p    == Target(<<r.cur>>, StoredName(storage, <<r.cur>>, name))
               IN /\ storage' = UsetSave(storage, <<r.cur>>, name, r.fp)
                  /\ th' = [th EXCEPT ![t] =
                              AfterWrite([r EXCEPT !.wrote = r.wrote \cup {p}], kit)]
  /\ UNCHANGED << kit, nops, nup, seenPaths, running, fx >>

\* BoundField.url, line 68: return self.uset.url(os.path.join(...))
UrlReturn(t) ==
  /\ t \in running
  /\ th[t].pc = "ret"
  /\ LET r == th[t]
         f == FieldOf(kit, r.cur)
     IN th' = [th EXCEPT ![t] =
                 NextField([r EXCEPT !.out = r.out \cup {<< r.cur, BoundUrl(f, r.inst) >>}], kit)]
  /\ UNCHANGED << kit, storage, nops, nup, seenPaths, running, fx >>

(* ---------------------------- specification ---------------------------- *)
Next ==
  \/ \E t \in Threads, name \in UploadNames, img \in BOOLEAN : SaveStore(t, name, img)
  \/ \E t \in Threads : SaveInit(t)
  \/ \E t \in Threads, filename \in RequestNames : Construct(t, filename)
  \/ \E t \in Threads, filename \in SourceNames, force \in BOOLEAN : Process(t, filename, force)
  \/ \E t \in Threads, filename \in SourceNames : ToDict(t, filename)
  \/ \E t \in Threads, filename \in SourceNames, label \in LabelSet(kit) : Url(t, filename, label)
  \/ \E t \in Threads, filename \in SourceNames, label \in LabelSet(kit) : ReadPath(t, filename, label)
  \/ \E t \in Threads : UrlCheck(t)
  \/ \E t \in Threads : SaveTransform(t)
  \/ \E t \in Threads : SaveWrite(t)
  \/ \E t \in Threads : UrlReturn(t)

Spec == Init /\ [][Next]_vars

SpecSeq == InitSeq /\ [][Next]_vars

(* ------------------- Field functions on their own ---------------------- *)
\* Field.extension() and BoundField.get_filename() are functions of the
\* field and the filename alone; here they are called on fields and names
\* the kits above do not have.  An extension is None or a non-empty string
\* ("the extension to save and fetch the file with").
FxChains ==
  { <<BaseProcessor>>, <<Resize(1)>>, <<BaseProcessor, Resize(1)>>, <<Resize(1), BaseProcessor>> }
FxExts == { None, <<"g">>, <<"j">>, <<"t", "x">> }
FxNames ==
  { <<"a", ".", "p">>, <<"a", ".", "b", ".", "p">>, <<"a", "b", ".", "j">>, <<".", "p">> }

\* not yet returned
Unset == <<"?">>

InitExt ==
  /\ kit = KitTE
  /\ storage = << >>
  /\ th = [t \in Threads |-> IdleThread]
  /\ nops = 0
  /\ nup = 0
  /\ seenPaths = {}
  /\ running = {}
  /\ \E c \in FxChains, e \in FxExts, n \in FxNames :
       fx = [phase |-> "in", f |-> Field("x", c, e, FALSE), filename |-> n,
             ext |-> Unset, name |-> Unset]

\* self._field.extension()
CallExtension ==
  /\ fx.phase = "in"
  /\ fx' = [fx EXCEPT !.phase = "ext", !.ext = extension(fx.f)]
  /\ UNCHANGED << kit, storage, th, nops, nup, seenPaths, running >>

\* bound_field.get_filename()
CallGetFilename ==
  /\ fx.phase = "ext"
  /\ fx' = [fx EXCEPT !.phase = "name", !.name = get_filename(fx.f, fx.filename)]
  /\ UNCHANGED << kit, storage, th, nops, nup, seenPaths, running >>

NextExt == CallExtension \/ CallGetFilename

SpecExt == InitExt /\ [][NextExt]_vars

(* --------------------------- Resize.process ---------------------------- *)
\* Resize.process computes the size of its output from the size of the image
\* and the processor's width, height, crop and upscale.  Its arithmetic is in
\* floating point.  A quotient of two small integers is a fraction <<n, d>>;
\* the product of a dimension and the ratio is the exact fraction, together
\* with a flag telling that the float came out just below it.  That can only
\* happen when the ratio is no binary fraction (a ratio n / 2^k and its
\* products with small integers are exact); a float just above the exact
\* value truncates and rounds as the exact value does.

\* dimensions of images and targets: the small ones, and the ones of the
\* spec's examples
MaxDim == 4
ExampleDims == {50, 100, 200}
Dims == 1..MaxDim \cup ExampleDims

\* width=None or height=None
NoDim == -1

\* Resize(width, height, crop=False, upscale=False)
ResizeOf(width, height, crop, upscale) ==
  [width |-> width, height |-> height, crop |-> crop, upscale |-> upscale]

\* the float of n / 2^k is exact
IsBinary(fr) == \E k \in 0..8 : (fr[1] * (2 ^ k)) % fr[2] = 0

FracLess(a, b) == a[1] * b[2] < b[1] * a[2]
FracMax(a, b) == IF FracLess(a, b) THEN b ELSE a
FracMin(a, b) == IF FracLess(b, a) THEN b ELSE a

\* cur * ratio
Times(n, fr) == << n * fr[1], fr[2] >>
IsInt(fr) == fr[1] % fr[2] = 0

\* int(x) of a float x >= 0 that is the fraction fr, or just below it
IntOf(fr, below) ==
  IF below /\ IsInt(fr) /\ fr[1] > 0 THEN (fr[1] \div fr[2]) - 1 ELSE fr[1] \div fr[2]

\* int(round(x)): Python rounds a half away from zero
RoundOf(fr, below) ==
  IF below /\ (2 * fr[1]) % fr[2] = 0 /\ ~IsInt(fr)
    THEN fr[1] \div fr[2]
    ELSE (2 * fr[1] + fr[2]) \div (2 * fr[2])

\* crop ratio that fits the image inside the target instead of covering it
CropRatioMin(p, size) == FracMin(<< p.width, size[1] >>, << p.height, size[2] >>)

\* line 311: ratio = max(float(self.width)/cur_width, float(self.height)/cur_height)
CropRatio(p, size) == FracMax(<< p.width, size[1] >>, << p.height, size[2] >>)

\* line 313: abs(self.width - resize_x), for resize_x = cur * ratio
CropOf(target, cur, ratio) ==
  LET d == target * ratio[2] - cur * ratio[1]
  IN << IF d < 0 THEN 0 - d ELSE d, ratio[2] >>

\* line 314: int(crop_x / 2); resize_x just below its fraction leaves crop_x
\* just below its own (or, where they are equal, just above zero)
DiffOf(crop, below) == IntOf(<< crop[1], 2 * crop[2] >>, below)

\* lines 315-325, crop_horz = crop_vert = 1:
\* box = (x_diff, y_diff, x_diff + width, y_diff + height)
CropBox(p, x_diff, y_diff) == << x_diff, y_diff, x_diff + p.width, y_diff + p.height >>

\* Image.crop(box): the region has the size of the box
CropSize(box) == << box[3] - box[1], box[4] - box[2] >>

\* lines 308-326 and 343: what the crop branch makes of an image of `size`
ResizeCropped(p, size, bx, by) ==
  LET ratio    == CropRatio(p, size)
      resize_x == Times(size[1], ratio)
      resize_y == Times(size[2], ratio)
      x_diff   == DiffOf(CropOf(p.width, size[1], ratio), bx)
      y_diff   == DiffOf(CropOf(p.height, size[2], ratio), by)
      box      == CropBox(p, x_diff, y_diff)
  IN [ ratio |-> ratio, resized |-> << IntOf(resize_x, bx), IntOf(resize_y, by) >>,
       box |-> box, out |-> CropSize(box) ]

\* lines 328-335: the ratio of the branch without crop
FitRatio(p, size) ==
  IF p.width # NoDim /\ p.height # NoDim
    THEN FracMin(<< p.width, size[1] >>, << p.height, size[2] >>)
    ELSE IF p.width = NoDim
           THEN << p.height, size[2] >>
           ELSE << p.width, size[1] >>

\* a test that skips only when both dimensions would grow
ExceedsBoth(new, size) == new[1] > size[1] /\ new[2] > size[2]

\* lines 338-339: new_dimensions[0] > cur_width or new_dimensions[1] > cur_height
Exceeds(new, size) == new[1] > size[1] \/ new[2] > size[2]

\* lines 327-344: what the branch without crop makes of an image of `size`
ResizeFitted(p, size, bx, by) ==
  LET ratio == FitRatio(p, size)
      new_dimensions == << RoundOf(Times(size[1], ratio), bx), RoundOf(Times(size[2], ratio), by) >>
      skip  == Exceeds(new_dimensions, size) /\ ~p.upscale
  IN [ ratio |-> ratio, new |-> new_dimensions, skipped |-> skip,
       out |-> IF skip THEN size ELSE new_dimensions ]

\* the floats that may come out just below the fraction
Belows(ratio) == IF IsBinary(ratio) THEN {FALSE} ELSE BOOLEAN

\* an image of some size is about to go through some Resize
InitResize ==
  /\ kit = KitTE
  /\ storage = << >>
  /\ th = [t \in Threads |-> IdleThread]
  /\ nops = 0
  /\ nup = 0
  /\ seenPaths = {}
  /\ running = {}
  /\ \E cw \in Dims, ch \in Dims, w \in Dims \cup {NoDim}, h \in Dims \cup {NoDim},
        crop \in BOOLEAN, upscale \in BOOLEAN :
       /\ crop => (w # NoDim /\ h # NoDim)
       /\ w # NoDim \/ h # NoDim
       /\ fx = [phase |-> "img", p |-> ResizeOf(w, h, crop, upscale), size |-> << cw, ch >>]

\* Resize.process with self.crop
ResizeCrop ==
  /\ fx.phase = "img"
  /\ fx.p.crop
  /\ \E bx \in Belows(CropRatio(fx.p, fx.size)), by \in Belows(CropRatio(fx.p, fx.size)) :
       fx' = [phase |-> "cropped", p |-> fx.p, size |-> fx.size,
              res |-> ResizeCropped(fx.p, fx.size, bx, by)]
  /\ UNCHANGED << kit, storage, th, nops, nup, seenPaths, running >>

\* Resize.process without
ResizeFit ==
  /\ fx.phase = "img"
  /\ ~fx.p.crop
  /\ \E bx \in Belows(FitRatio(fx.p, fx.size)), by \in Belows(FitRatio(fx.p, fx.size)) :
       fx' = [phase |-> "fitted", p |-> fx.p, size |-> fx.size,
              res |-> ResizeFitted(fx.p, fx.size, bx, by)]
  /\ UNCHANGED << kit, storage, th, nops, nup, seenPaths, running >>

NextResize == ResizeCrop \/ ResizeFit

SpecResize == InitResize /\ [][NextResize]_vars

(* ------------------------------- claims -------------------------------- *)
\* a request of thread t has returned normally
Returned(t, op) == th[t].pc = "done" /\ th[t].op = op /\ th[t].status = "ok"

\* the labels of a sequence, as a set
Range(q) == { q[i] : i \in 1..Len(q) }

\* the path of field `label` of the source `filename`, spelled out: the
\* label, '/', the text before the last '.', '.', and the extension
DerivativeAt(label, filename, ext) ==
  <<label>> \o <<"/">> \o SubSeq(filename, 1, LastDot(filename) - 1) \o <<".">> \o ext

\* the extension each field of the kits resolves to
ExtOfLabel(label) == IF label = "t" THEN <<"j">> ELSE <<"g">>

\* the derivative of field `label` is in storage for the source `filename`
Materialized(label, filename) ==
  DerivativeAt(label, filename, ExtOfLabel(label)) \in DOMAIN storage

\* C1: url() is the lazy-generation gate.  A url() call that finds the
\* derivative at the field's path calls no processor and stores nothing; and
\* of two url() calls for the same field of the same source, one after the
\* other with nothing in between, the first of which found the derivative
\* absent, the first ran the chain once and left the derivative in storage
\* and the second ran nothing: the chain ran exactly once over the two.
C1_UrlGeneratesOnce ==
  \A t \in Threads :
    Returned(t, "url") =>
      /\ Materialized(th[t].arg, th[t].inst)
      /\ th[t].absent = {} => (th[t].gen = <<>> /\ th[t].wrote = {})
      /\ \A i \in 1..Len(th[t].prev) :
           LET first == th[t].prev[i]
           IN (first.status = "ok" /\ first.inst = th[t].inst
               /\ first.label = th[t].arg /\ first.absent)
              => (first.ran = 1 /\ th[t].gen = <<>> /\ th[t].wrote = {})

\* C1 witness: the second of two url() calls in a row for one field has
\* returned, and the first had found the derivative absent
C1_Witness ==
  \E t \in Threads :
    /\ Returned(t, "url")
    /\ th[t].prev # <<>>
    /\ th[t].prev[1].status = "ok"
    /\ th[t].prev[1].absent
    /\ th[t].prev[1].inst = th[t].inst
    /\ th[t].prev[1].label = th[t].arg

\* the stream a field's whole chain makes of a source decodable as an image
FullTrace(label) == IF label = "t" THEN <<1>> ELSE <<2, 1>>

\* the file at path u is the complete output of the chain of field `label`
FullyWritten(label, u) ==
  /\ u \in DOMAIN storage
  /\ storage[u].data.img
  /\ storage[u].data.trace = FullTrace(label)

\* C2: whatever the interleaving of url(), to_dict() and process() calls,
\* every URL a url() call has returned names a file that is in storage, in
\* the field's folder, holding the complete output of the field's chain.
C2_UrlResolvable ==
  \A t \in Threads :
    \A pair \in th[t].out :
      /\ pair[2] = DerivativeAt(pair[1], th[t].inst, ExtOfLabel(pair[1]))
      /\ FullyWritten(pair[1], pair[2])

\* C2 witness: a url() call that had found the derivative absent has
\* returned its URL while the other thread is inside a request
C2_Witness ==
  \E t \in Threads, u \in Threads :
    /\ t # u
    /\ th[t].out # {}
    /\ th[t].absent # {}
    /\ th[u].pc \in {"chk", "open", "write", "ret"}
    /\ th[u].inst = th[t].inst

\* thread t takes the step in which BoundField.save, entered from url,
\* hands its stream to the upload set
UrlStores(t) ==
  /\ th[t].pc = "write"
  /\ th[t].op \in {"url", "to_dict"}
  /\ th'[t].pc = "ret"

\* thread u ran url for the same field of the same source, found the
\* derivative absent like t, and has already stored its file at the path
RacedBy(t, u) ==
  /\ u # t
  /\ th[u].op \in {"url", "to_dict"}
  /\ th[u].inst = th[t].inst
  /\ th[t].cur \in th[u].absent
  /\ th[t].cur \in th[t].absent
  /\ DerivativeAt(th[t].cur, th[t].inst, ExtOfLabel(th[t].cur)) \in th[u].wrote

\* C3: the existence check and the generation in url() are not atomic.  A
\* url() call that found the derivative absent goes on to run the whole
\* read-transform-write cycle whatever has been stored since, so two calls
\* that both checked before either wrote both run the chain; and when the
\* second of them stores its file, it is stored at the field's path, whose
\* content is then the second writer's.
C3_RaceLastWriterWins ==
  /\ [](\A t \in Threads :
          (th[t].op \in {"url", "to_dict"} /\ th[t].pc \in {"open", "write"})
            => th[t].cur \in th[t].absent)
  /\ [][\A t \in Threads, u \in Threads :
          (UrlStores(t) /\ RacedBy(t, u)) =>
            LET p == DerivativeAt(th[t].cur, th[t].inst, ExtOfLabel(th[t].cur))
            IN /\ th[t].cur \in Range(th[t].gen)
               /\ th[t].cur \in Range(th[u].gen)
               /\ p \in DOMAIN storage'
               /\ p \in th'[t].wrote
               /\ storage'[p].data = th[t].fp]_vars

\* C4: when FileKit.save has returned, every pre_cache field of the kit has
\* its derivative in storage for the stored source and every other field has
\* none.
C4_EagerLazyPartition ==
  \A t \in Threads :
    Returned(t, "save") =>
      \A i \in 1..Len(kit) :
        Materialized(kit[i].label, th[t].inst) <=> kit[i].pre_cache

\* C5: process(force=True) enters BoundField.save once for every declared
\* field, in the order of `fields`, whether the field is pre_cache or not and
\* whether its derivative is there or not, stores one file per field, and
\* every field's derivative is at its path when it returns.
C5_ForceProcessesAll ==
  \A t \in Threads :
    (Returned(t, "process") /\ th[t].force) =>
      /\ th[t].gen = Labels(kit)
      /\ Cardinality(th[t].wrote) = Len(kit)
      /\ \A l \in LabelSet(kit) : Materialized(l, th[t].inst)

\* C5 witness: process(force=True) has returned for a source whose
\* derivatives were already there: it stored a file for every field and at
\* least one of them beside the derivative that was in its way
C5_Witness ==
  \E t \in Threads :
    /\ Returned(t, "process")
    /\ th[t].force
    /\ \E l \in LabelSet(kit) :
         /\ ~FieldOf(kit, l).pre_cache
         /\ DerivativeAt(l, th[t].inst, ExtOfLabel(l)) \notin th[t].wrote

\* C6: in every reachable storage state, constructing a FileKit for a
\* filename that FileKit.save never returned (nor was passed) raises
\* FileNotFound and gives no instance.
C6_UnknownNameNotFound ==
  \A t \in Threads :
    (th[t].op = "init" /\ th[t].pc = "done" /\ th[t].inst \notin SourceNames)
      => th[t].status = "FileNotFound"

\* thread t takes the step in which a processor of its chain raises
ChainRaises(t) ==
  /\ th[t].pc = "open"
  /\ th'[t].status = "ProcessorError"

\* the files stored in the folder of field `label`
InFolder(label, paths) == { p \in paths : Len(p) > 1 /\ p[1] = label /\ p[2] = "/" }

\* C7: when a processor of the chain raises inside BoundField.save, the
\* error ends the request, nothing is stored for that field in the attempt
\* and storage is what it was when the attempt began; a request stores one
\* file for each field whose chain ran to its end and none for any other;
\* and every file in a field's folder is the output of the field's whole
\* chain.
C7_FailedChainStoresNothing ==
  /\ [](\A t \in Threads :
          /\ th[t].status = "ProcessorError" =>
               /\ th[t].pc = "done"
               /\ InFolder(th[t].cur, th[t].wrote) = {}
               /\ Cardinality(th[t].wrote) = Len(th[t].gen) - 1
          /\ th[t].status = "ok" => Cardinality(th[t].wrote) = Len(th[t].gen)
          /\ \A l \in LabelSet(kit) :
               \A p \in InFolder(l, DOMAIN storage) : FullyWritten(l, p))
  /\ [][\A t \in Threads : ChainRaises(t) => storage' = storage]_vars

\* C7 witness: a chain has raised for a field whose path holds an earlier
\* artifact, which is still there
C7_Witness ==
  \E t \in Threads :
    /\ th[t].status = "ProcessorError"
    /\ Materialized(th[t].cur, th[t].inst)
    /\ storage[DerivativeAt(th[t].cur, th[t].inst, ExtOfLabel(th[t].cur))].data.src
         # storage[th[t].inst].data.src

\* the filename is stem, '.', ext, with no '.' in ext
SplitsAs(filename, stem, ext) ==
  /\ filename = stem \o <<".">> \o ext
  /\ \A i \in 1..Len(ext) : ext[i] # "."

\* filename with its extension replaced by ext
WithExtension(filename, ext, derived) ==
  \E k \in 1..Len(filename) :
    /\ SplitsAs(filename, SubSeq(filename, 1, k - 1), SubSeq(filename, k + 1, Len(filename)))
    /\ derived = SubSeq(filename, 1, k - 1) \o <<".">> \o ext

ReadsPath(t) == th'[t].op = "path" /\ th'[t] # th[t]

\* C9: for a given kit, field label and source filename, BoundField.path has
\* one value in every reachable state: each value read, before or after any
\* derivative was generated and in whatever order, is the label, '/', and
\* the source name with the field's extension; and a read of path tests no
\* existence and leaves storage as it is.
C9_PathDeterministic ==
  /\ [](\A x \in seenPaths : x[3] = DerivativeAt(x[2], x[1], ExtOfLabel(x[2])))
  /\ [][\A t \in Threads : ReadsPath(t) => storage' = storage]_vars

\* C9 witness: path was read when url found the derivative absent, and has
\* been read again, by the same thread, now that the derivative is stored
C9_Witness ==
  \E t \in Threads :
    /\ Returned(t, "path")
    /\ th[t].prev # <<>>
    /\ th[t].prev[1].absent
    /\ th[t].prev[1].inst = th[t].inst
    /\ th[t].prev[1].label = th[t].arg
    /\ Materialized(th[t].arg, th[t].inst)
    /\ << th[t].inst, th[t].arg, DerivativeAt(th[t].arg, th[t].inst, ExtOfLabel(th[t].arg)) >>
         \in seenPaths

\* C10: to_dict() returns a mapping whose keys are exactly the declared
\* field labels, each with the URL of the field's derivative; when it
\* returns every field's derivative is in storage, the fields whose
\* derivative url() found were not generated again, and the fields whose
\* derivative it found absent were generated once each.
C10_ToDictGeneratesAbsent ==
  \A t \in Threads :
    Returned(t, "to_dict") =>
      /\ { pair[1] : pair \in th[t].out } = LabelSet(kit)
      /\ Cardinality(th[t].out) = Len(kit)
      /\ \A pair \in th[t].out :
           pair[2] = DerivativeAt(pair[1], th[t].inst, ExtOfLabel(pair[1]))
      /\ \A l \in LabelSet(kit) : Materialized(l, th[t].inst)
      /\ Range(th[t].gen) = th[t].absent
      /\ Len(th[t].gen) = Cardinality(th[t].absent)
      /\ Cardinality(th[t].wrote) = Cardinality(th[t].absent)

\* C10 witness: to_dict() has returned after finding one field's derivative
\* in storage and another's absent
C10_Witness ==
  \E t \in Threads :
    /\ Returned(t, "to_dict")
    /\ th[t].absent # {}
    /\ th[t].absent # LabelSet(kit)

\* thread t takes the step in which FileKit.save stores the source
StoresSource(t) == th[t].pc \in {"idle", "done"} /\ th'[t].op = "save" /\ th'[t].pc = "init"

\* a request starts in this step and thread u ends it as a constructor call
StartsInit(u) ==
  /\ th[u].pc \in {"idle", "done"}
  /\ nops' = nops + 1
  /\ th'[u].op = "init"
  /\ th'[u].pc = "done"

\* the derived path of every field of an instance, by label
FieldPaths(filename) ==
  [l \in LabelSet(kit) |-> BoundPath(FieldOf(kit, l), filename)]

\* C11: round trip through storage.  The filename FileKit.save gives its
\* instance is the path the upload set stored this very source under, renamed
\* or not; and whenever, after save has returned the instance, FileKit is
\* constructed from instance.filename, the constructor succeeds and the new
\* instance has the source path, the field labels and the derived field paths
\* of the original.
C11_RoundTrip ==
  /\ [][\A t \in Threads :
          StoresSource(t) =>
            /\ DOMAIN storage' \ DOMAIN storage = { th'[t].inst }
            /\ storage'[th'[t].inst].data.src = nup']_vars
  /\ [](\A t \in Threads :
          Returned(t, "save") =>
            /\ th[t].inst \in DOMAIN storage
            /\ storage[th[t].inst].data.trace = <<>>)
  /\ [][\A t \in Threads, u \in Threads :
          (Returned(t, "save") /\ StartsInit(u) /\ Construct(u, th[t].inst)) =>
            /\ th'[u].status = "ok"
            /\ th'[u].inst = th[t].inst
            /\ DOMAIN FieldPaths(th'[u].inst) = Range(Labels(kit))
            /\ FieldPaths(th'[u].inst) = FieldPaths(th[t].inst)]_vars

\* C11 witness: save returned an instance under a name the upload set chose
\* (the suggested one was taken), and the same thread has then constructed
\* the kit again from that name
C11_Witness ==
  \E t \in Threads :
    /\ Returned(t, "init")
    /\ th[t].prev # <<>>
    /\ th[t].prev[1].label = NoLabel
    /\ th[t].prev[1].status = "ok"
    /\ th[t].prev[1].inst = th[t].inst
    /\ th[t].inst \notin UploadNames

\* a class body with a configuration error: a label written twice, or a
\* field with no processor
ConfigError(body) ==
  \/ \E i, j \in 1..Len(body) : i # j /\ body[i].label = body[j].label
  \/ \E i \in 1..Len(body) : body[i].processors = <<>>

\* thread t holds a constructed FileKit instance
HoldsInstance(t) == th[t].pc \notin {"idle", "init"} /\ th[t].inst # None

\* C12: a configuration error (a field with an empty processor chain, a
\* label declared twice) is detected when the kit class is defined: of a
\* class body with such an error no kit exists, so no FileKit instance of it
\* is ever constructed and no save, url, path or process call is where the
\* error first shows.
C12_ConfigErrorsAtDefinition ==
  (\E b \in ClassBodies : ConfigError(b) /\ kit \in DeclarativeFieldsMetaclass(b)) =>
    \A t \in Threads :
      /\ ~HoldsInstance(t)
      /\ th[t].status # "IndexError"

\* the fraction fr is the greater of a and b
IsMaxOf(fr, a, b) ==
  /\ ~FracLess(fr, a)
  /\ ~FracLess(fr, b)
  /\ (~FracLess(a, fr) \/ ~FracLess(b, fr))

\* C13: Resize with crop gives an image of exactly (width, height) whatever
\* the size of the source: the ratio is max(width/cur_width,
\* height/cur_height), so that the scaled image covers the target, and the
\* crop box is (width, height) large and starts at half of what the scaled
\* image overflows the target by, in each axis.  A 200x100 source with a
\* 100x100 target has ratio 1, stays 200x100, is cropped to the box
\* (50, 0, 150, 100) -- 50 px off either side -- and comes out 100x100.
C13_CropExactTarget ==
  fx.phase = "cropped" =>
    LET p == fx.p
        r == fx.res
    IN /\ r.out = << p.width, p.height >>
       /\ IsMaxOf(r.ratio, << p.width, fx.size[1] >>, << p.height, fx.size[2] >>)
       /\ r.box[3] - r.box[1] = p.width
       /\ r.box[4] - r.box[2] = p.height
       /\ r.box[1] >= 0 /\ r.box[2] >= 0
       /\ r.resized[1] >= p.width => r.box[1] = (r.resized[1] - p.width) \div 2
       /\ r.resized[2] >= p.height => r.box[2] = (r.resized[2] - p.height) \div 2
       /\ (fx.size = << 200, 100 >> /\ p.width = 100 /\ p.height = 100) =>
            /\ r.ratio[1] = r.ratio[2]
            /\ r.resized = << 200, 100 >>
            /\ r.box = << 50, 0, 150, 100 >>
            /\ r.resized[1] - r.box[3] = 50

\* C13 witness: the 200x100 source has gone through Resize(100, 100,
\* crop=True) and come out 100x100
C13_Witness ==
  /\ fx.phase = "cropped"
  /\ fx.size = << 200, 100 >>
  /\ fx.p.width = 100 /\ fx.p.height = 100
  /\ fx.res.out = << 100, 100 >>

\* the fraction fr is the smaller of a and b
IsMinOf(fr, a, b) ==
  /\ ~FracLess(a, fr)
  /\ ~FracLess(b, fr)
  /\ (~FracLess(fr, a) \/ ~FracLess(fr, b))

\* n is cur * ratio rounded to the nearest integer: |n - cur * ratio| <= 1/2
IsRounded(n, cur, ratio) ==
  LET d == n * ratio[2] - cur * ratio[1]
  IN 2 * (IF d < 0 THEN 0 - d ELSE d) <= ratio[2]

\* C14: Resize without crop and without upscale never enlarges.  With both
\* targets given, the new dimensions are cur_width * ratio and cur_height *
\* ratio rounded to the nearest integer, for ratio the smaller of
\* width/cur_width and height/cur_height; when either of them is greater
\* than the source's the resize is skipped and the output has the size of the
\* source (a 50x50 source with a 100x100 target stays 50x50); otherwise the
\* output has exactly the new dimensions, neither greater than the source's.
C14_NoUpscaleNeverEnlarges ==
  (fx.phase = "fitted" /\ ~fx.p.upscale) =>
    LET p == fx.p
        r == fx.res
        cur == fx.size
    IN /\ r.out[1] <= cur[1]
       /\ r.out[2] <= cur[2]
       /\ (p.width # NoDim /\ p.height # NoDim) =>
            /\ IsMinOf(r.ratio, << p.width, cur[1] >>, << p.height, cur[2] >>)
            /\ IsRounded(r.new[1], cur[1], r.ratio)
            /\ IsRounded(r.new[2], cur[2], r.ratio)
       /\ (r.new[1] > cur[1] \/ r.new[2] > cur[2]) => (r.skipped /\ r.out = cur)
       /\ (r.new[1] <= cur[1] /\ r.new[2] <= cur[2]) => (~r.skipped /\ r.out = r.new)
       /\ (cur = << 50, 50 >> /\ p.width = 100 /\ p.height = 100) => r.out = << 50, 50 >>

\* C14 witness: a source that only one axis of the target would enlarge has
\* gone through Resize without crop or upscale, and kept its size
C14_Witness ==
  /\ fx.phase = "fitted"
  /\ ~fx.p.upscale
  /\ fx.p.width # NoDim /\ fx.p.height # NoDim
  /\ fx.res.new[1] <= fx.size[1]
  /\ fx.res.new[2] > fx.size[2]
  /\ fx.res.out = fx.size

\* the file at path u was made from the source the thread's instance is of
DerivedFromOwnSource(t, u) ==
  /\ u \in DOMAIN storage
  /\ storage[u].data.src = storage[th[t].inst].data.src

\* C15: the derivatives of two distinct stored sources never share a path
\* for a field: when url() of a field finds a file at the field's path and
\* skips generation, the file was derived from the instance's own source, and
\* so was the file every URL it returned names.
C15_NoCrossSourceArtifact ==
  \A t \in Threads :
    /\ (th[t].op \in {"url", "to_dict"} /\ th[t].pc = "ret") =>
         DerivedFromOwnSource(t, BoundPath(FieldOf(kit, th[t].cur), th[t].inst))
    /\ (th[t].op \in {"url", "to_dict"}) =>
         \A pair \in th[t].out : DerivedFromOwnSource(t, pair[2])

\* thread t takes the step of BoundField.save that runs the chain, and the
\* step that hands the stream to the upload set
RunsChain(t) == th[t].pc = "open" /\ th'[t].pc = "write"
StoresStream(t) == th[t].pc = "write" /\ th'[t].pc # "write"

\* C16: BoundField.save calls the field's processors in declared order, each
\* once, the first on the opened source and each next one on what the
\* previous returned, and stores nothing meanwhile; it then stores the last
\* stream, and that alone, at the path made of the field's label as folder
\* and get_filename(): the file at that path is p_n(...p_1(source)).
C16_ChainThenStoreAtPath ==
  /\ [][\A t \in Threads :
          RunsChain(t) =>
            /\ th'[t].pi = Len(FieldOf(kit, th[t].cur).processors)
            /\ th'[t].fp.src = storage[th[t].inst].data.src
            /\ th'[t].fp.trace = FullTrace(th[t].cur)
            /\ storage' = storage]_vars
  /\ [][\A t \in Threads :
          StoresStream(t) =>
            LET p == PathJoin(<< th[t].cur >>, get_filename(FieldOf(kit, th[t].cur), th[t].inst))
            IN /\ Cardinality(DOMAIN storage' \ DOMAIN storage) <= 1
               /\ \A q \in DOMAIN storage : storage'[q] = storage[q] \/ q = p
               /\ th'[t].wrote = th[t].wrote \cup {p}
               /\ storage'[p].data = th[t].fp]_vars

\* the labels of the pre_cache fields, in the order of `fields`
EagerLabels(k) == SelectSeq(Labels(k), LAMBDA l : FieldOf(k, l).pre_cache)

\* thread t is in, or has returned from, process(force=False), called
\* directly or by FileKit.save
InUnforcedProcess(t) ==
  \/ th[t].op = "process" /\ ~th[t].force /\ th[t].inst # None
  \/ th[t].op = "save" /\ th[t].pc \notin {"idle", "init"}

\* C17: process(force=False) enters BoundField.save for exactly the
\* pre_cache fields, once each in the order of `fields`, and tests no
\* existence: a pre_cache field is generated again when its derivative is
\* already there.  It runs no chain of any other field and leaves every file
\* in such a field's folder, and the folder's listing, as they were.
C17_UnforcedProcessEagerOnly ==
  /\ [](\A t \in Threads :
          InUnforcedProcess(t) =>
            /\ th[t].pc # "chk"
            /\ th[t].absent = {}
            /\ Len(th[t].gen) <= Len(EagerLabels(kit))
            /\ \A i \in 1..Len(th[t].gen) : th[t].gen[i] = EagerLabels(kit)[i]
            /\ \A l \in LabelSet(kit) :
                 ~FieldOf(kit, l).pre_cache => InFolder(l, th[t].wrote) = {}
            /\ (th[t].pc = "done" /\ th[t].status = "ok") =>
                 /\ th[t].gen = EagerLabels(kit)
                 /\ Cardinality(th[t].wrote) = Len(EagerLabels(kit)))
  /\ [][\A t \in Threads :
          (InUnforcedProcess(t) /\ th'[t].pc # th[t].pc /\ th'[t].op = th[t].op) =>
            \A l \in LabelSet(kit) :
              ~FieldOf(kit, l).pre_cache =>
                /\ InFolder(l, DOMAIN storage') = InFolder(l, DOMAIN storage)
                /\ \A p \in InFolder(l, DOMAIN storage) : storage'[p] = storage[p]]_vars

\* C17 witness: process(force=False) has returned for a source whose eager
\* derivative was already there, having generated it again, beside a lazy
\* field whose derivative is not there
C17_Witness ==
  \E t \in Threads :
    /\ Returned(t, "process")
    /\ ~th[t].force
    /\ th[t].gen = <<"t">>
    /\ th[t].wrote # {}
    /\ DerivativeAt("t", th[t].inst, ExtOfLabel("t")) \notin th[t].wrote
    /\ ~Materialized("e", th[t].inst)

\* C18: no operation removes a file.  Over every step of every save,
\* construction, url, to_dict, path and process(force) request, in whatever
\* interleaving, each path of the upload set stays and keeps its bytes: a
\* derivative that is there stays there, and a stored source stays a name
\* FileKit can be constructed from.
C18_StorageOnlyGrows ==
  /\ [][/\ DOMAIN storage \subseteq DOMAIN storage'
        /\ \A p \in DOMAIN storage : storage'[p] = storage[p]
        /\ SourceNames \subseteq SourceNames']_vars
  /\ [](\A t \in Threads :
          /\ th[t].wrote \subseteq DOMAIN storage
          /\ \A n \in SourceNames : Bound(t, "init", n).status # "FileNotFound")

\* C18 witness: three requests have run, among them a forced process that
\* stored two files beside two derivatives that were there, and all five
\* files are in storage
C18_Witness ==
  /\ nops = MaxOps
  /\ Cardinality(DOMAIN storage) >= 5
  /\ \E t \in Threads :
       /\ Returned(t, "process")
       /\ th[t].force
       /\ \A l \in LabelSet(kit) :
            /\ Materialized(l, th[t].inst)
            /\ DerivativeAt(l, th[t].inst, ExtOfLabel(l)) \notin th[t].wrote

\* thread t takes the step in which the chain of an eager field raises
\* inside FileKit.save
SaveRaises(t) == ChainRaises(t) /\ th[t].op = "save"

\* the labels that come after l in the order of `fields`
LabelsAfter(k, l) ==
  { k[j].label : j \in { j \in 1..Len(k) : \E i \in 1..(j - 1) : k[i].label = l } }

\* C19: FileKit.save does not roll back.  When the chain of a pre_cache field
\* raises during save, the error ends save and no instance is returned; the
\* source stays stored under the name the upload set gave it, the
\* derivatives of the pre_cache fields that came before stay stored, and no
\* field that comes after was generated.
C19_SaveDoesNotRollBack ==
  /\ [][\A t \in Threads :
          SaveRaises(t) =>
            /\ th'[t].pc = "done"
            /\ th'[t].inst = None
            /\ storage' = storage
            /\ th[t].inst \in SourceNames'
            /\ storage'[th[t].inst].data.trace = <<>>
            /\ Cardinality(th'[t].wrote) = Len(th'[t].gen) - 1
            /\ \A i \in 1..(Len(th'[t].gen) - 1) :
                 /\ FieldOf(kit, th'[t].gen[i]).pre_cache
                 /\ Materialized(th'[t].gen[i], th[t].inst)
                 /\ InFolder(th'[t].gen[i], th'[t].wrote) # {}
            /\ Range(th'[t].gen) \cap LabelsAfter(kit, th[t].cur) = {}]_vars
  /\ [](\A t \in Threads :
          (th[t].op = "save" /\ th[t].status = "ProcessorError") =>
            /\ th[t].pc = "done"
            /\ th[t].wrote \subseteq DOMAIN storage
            /\ Range(th[t].gen) \cap LabelsAfter(kit, th[t].cur) = {})

\* C19 witness: save has raised in its second pre_cache field, after it
\* stored the derivative of the first
C19_Witness ==
  \E t \in Threads :
    /\ th[t].op = "save"
    /\ th[t].status = "ProcessorError"
    /\ th[t].inst = None
    /\ Len(th[t].gen) = 2
    /\ th[t].wrote # {}
    /\ th[t].wrote \subseteq DOMAIN storage

====
